---- MODULE Spec2Model ----
(***************************************************************************)
(* TableDataSource of ngx-material-table: the ordered sequence of rows,    *)
(* their ids and editing state, the two push channels (rowsSubject and     *)
(* datasourceSubject) and the windowed delivery to connected viewers.      *)
(*                                                                         *)
(* Rows are objects: `rows` is the array held by rowsSubject (a sequence   *)
(* of object identities) and `el` maps an identity to the row's fields,    *)
(* so that two array slots holding the same object share their fields.     *)
(* Array indices are 0-based as in the source; Sequences are 1-based, so   *)
(* source[i] is written source[i + 1].                                     *)
(***************************************************************************)
EXTENDS Integers, Sequences, FiniteSets, TLC

(* ------------------------------ bounds --------------------------------- *)

\* Longest row array the model builds (createNew is not called beyond it).
MaxRows == 3
\* Number of connect() calls the model makes.
MaxConn == 2
\* Largest distance move() is asked to move a row, up or down.
MaxMove == 1

(* ------------------------- values of the source ------------------------ *)

\* id of the row under creation (createNew, `id: -1`).
NewRowId == -1
\* createNew() called without insertAt.
NoInsertAt == -1
\* `undefined`: an unset originalData, the unset currentData of the data source.
Undefined == "undefined"
\* The record createNewObject() builds: every field unset.
EmptyRecord == "empty"
\* The records with their fields filled.
Records == {"A", "B"}

Oid == 1 .. MaxRows

\* The arrays of records the owner of the data source holds and may pass to the
\* constructor and to updateDatasource; a reference is the array's name here.
Collections == [ab |-> << "A", "B" >>, ae |-> << "A", EmptyRecord >>,
                aa |-> << "A", "A" >>, a |-> << "A" >>]
CallerRefs == DOMAIN Collections
\* Reference of the array getDataFromRows built last (a fresh array, equal to
\* no array of the caller).
EmittedRef == "emitted"

Min(a, b) == IF a < b THEN a ELSE b
Max(a, b) == IF a > b THEN a ELSE b
Range(s) == {s[i] : i \in DOMAIN s}

VARIABLES
  prependNewElements,            \* _config.prependNewElements
  keepOriginalDataAfterConfirm,  \* _config.keepOriginalDataAfterConfirm
  rows,                          \* rowsSubject.getValue(): array of row objects
  el,                            \* fields of each row object
  currentData,                   \* this.currentData: reference of the held array
  emitted,                       \* what the latest call emitted on datasourceSubject
  pubs,                          \* publications made by the latest call, in order
  call,                          \* the latest call: its name, array argument, result
  connectedViewers,              \* this.connectedViewers
  delivered,                     \* slice each connection received in the latest call
  suppressErrors,                \* _config.suppressErrors
  formGroup,                     \* validatorService.getRowValidator()
  console,                       \* messages written by console.error
  seen                           \* the rows as subscribers saw them at each
                                 \* publication of the latest call

vars == << prependNewElements, keepOriginalDataAfterConfirm, rows, el,
           currentData, emitted, pubs, call, connectedViewers, delivered,
           suppressErrors, formGroup, console, seen >>

config == << prependNewElements, keepOriginalDataAfterConfirm, suppressErrors,
            formGroup, console >>

\* Fields of a row object no array slot refers to.
FreeRow == [id |-> 0, editing |-> FALSE, currentData |-> EmptyRecord,
            originalData |-> Undefined]

NoEmission == [ref |-> Undefined, items |-> << >>]

(* ------------------------------ the row -------------------------------- *)

\* FormGroup.valid: a disabled control has status DISABLED, which is not VALID;
\* an enabled one is valid when its validators accept the value. The row
\* validator requires the fields of the record: it rejects the record with
\* every field unset and accepts the others.
validatorValid(r) == r.editing /\ r.currentData # EmptyRecord

\* A version that leaves the validator enabled after reading it.
isValidStaysEnabled(r) ==
  LET enabled == [r EXCEPT !.editing = TRUE]
  IN [ret |-> validatorValid(enabled), row |-> enabled]

\* TableElementReactiveForms.isValid: the value returned and the row afterwards.
isValid(r) ==
  IF ~r.editing
    THEN LET enabled == [r EXCEPT !.editing = TRUE]
             valid == validatorValid(enabled)
             disabled == [enabled EXCEPT !.editing = FALSE]
         IN [ret |-> valid, row |-> disabled]
    ELSE [ret |-> validatorValid(r), row |-> r]

(* --------------------------- array helpers ----------------------------- *)

\* Array.prototype.splice(index, 1): a negative index counts from the end.
SpliceStart(index, len) ==
  IF index < 0 THEN Max(len + index, 0) ELSE Min(index, len)

spliceDelete(source, index) ==
  LET start == SpliceStart(index, Len(source))
  IN IF start < Len(source)
       THEN SubSeq(source, 1, start) \o SubSeq(source, start + 2, Len(source))
       ELSE source

\* Array.prototype.splice(index, 0, element).
spliceInsert(source, index, element) ==
  LET start == SpliceStart(index, Len(source))
  IN SubSeq(source, 1, start) \o << element >> \o SubSeq(source, start + 1, Len(source))

\* Array.prototype.slice(start, end) for start >= 0.
slice(data, start, end) ==
  SubSeq(data, Min(start, Len(data)) + 1, Min(end, Len(data)))

sliceFrom(data, start) == SubSeq(data, Min(start, Len(data)) + 1, Len(data))

clamp(value, max) == Max(0, Min(max, value))

\* moveItemInArray of @angular/cdk/drag-drop: both indices are clamped to the array.
moveItemInArray(array, fromIndex, toIndex) ==
  LET from == clamp(fromIndex, Len(array) - 1)
      to == clamp(toIndex, Len(array) - 1)
  IN IF from = to
       THEN array
       ELSE [i \in 1 .. Len(array) |->
               LET k == i - 1
               IN IF k = to THEN array[from + 1]
                  ELSE IF from < to /\ k >= from /\ k < to THEN array[k + 2]
                  ELSE IF to < from /\ k > to /\ k <= from THEN array[k]
                  ELSE array[i]]

(* ------------------------- indexing and ids ---------------------------- *)

getRowIdFromIndex(index, count) ==
  IF prependNewElements THEN count - 1 - index ELSE index

\* Array.prototype.findIndex: first index whose row has the id, else -1.
getIndexFromRowId(id, source, e) ==
  LET hits == {i \in 0 .. Len(source) - 1 : e[source[i + 1]].id = id}
  IN IF hits = {} THEN -1 ELSE CHOOSE i \in hits : \A j \in hits : i <= j

getNewRowIndex(source, e) == getIndexFromRowId(NewRowId, source, e)

\* A version that looks for the new row at the end of the array only.
existsNewElementAtEnd(source, e) ==
  Len(source) > 0 /\ e[source[Len(source)]].id = NewRowId

existsNewElement(source, e) == Len(source) > 0 /\ getNewRowIndex(source, e) > -1

RECURSIVE updateRowIdsFrom(_, _, _, _)
updateRowIdsFrom(index, delta, source, e) ==
  IF index < Len(source) /\ index >= 0
    THEN LET o == source[index + 1]
             e1 == IF e[o].id # NewRowId
                     THEN [e EXCEPT ![o].id = getRowIdFromIndex(index, Len(source))]
                     ELSE e
         IN updateRowIdsFrom(index + delta, delta, source, e1)
    ELSE e

updateRowIds(initialIndex, source, e) ==
  updateRowIdsFrom(initialIndex, IF prependNewElements THEN -1 ELSE 1, source, e)

(* --------------------------- record output ----------------------------- *)

rowData(r) ==
  IF ~keepOriginalDataAfterConfirm /\ r.originalData # Undefined
    THEN r.originalData
    ELSE r.currentData

\* A version that gives a record for the row under creation too.
RECURSIVE getDataFromRowsUnfiltered(_, _)
getDataFromRowsUnfiltered(source, e) ==
  IF source = << >>
    THEN << >>
    ELSE << rowData(e[Head(source)]) >> \o getDataFromRowsUnfiltered(Tail(source), e)

RECURSIVE getDataFromRows(_, _)
getDataFromRows(source, e) ==
  IF source = << >>
    THEN << >>
    ELSE LET r == e[Head(source)]
             rest == getDataFromRows(Tail(source), e)
         IN IF r.id # NewRowId THEN << rowData(r) >> \o rest ELSE rest

\* The records of an array reference.
Items(ref) == IF ref = EmittedRef THEN emitted.items ELSE Collections[ref]

(* ----------------------------- row objects ----------------------------- *)

\* Object identities carry no meaning of their own: after each call the row
\* objects are named by the first slot of the array that holds them, and the
\* objects no slot refers to are dropped.
FirstSlot(source, o) == CHOOSE i \in DOMAIN source :
                          source[i] = o /\ \A j \in DOMAIN source : source[j] = o => i <= j

Named(source) == [i \in DOMAIN source |-> FirstSlot(source, source[i])]

Collect(source, e) ==
  [o \in Oid |-> IF o \in DOMAIN source /\ FirstSlot(source, source[o]) = o
                   THEN e[source[o]]
                   ELSE FreeRow]

(* ------------------------- windowed delivery --------------------------- *)

\* The map() of connect: the slice of a publication for one range.
viewSlice(range, data) ==
  IF range.start > 0
    THEN IF range.end > range.start
           THEN slice(data, range.start, range.end)
           ELSE sliceFrom(data, range.start)
    ELSE data

\* rowsSubject.next(source): every connection receives its slice.
deliver(source) ==
  [c \in DOMAIN connectedViewers |->
     viewSlice(connectedViewers[c].range, Named(source))]

NewOid(source) == CHOOSE o \in Oid \ Range(source) : \A p \in Oid \ Range(source) : o <= p

\* getRowsFromData: one fresh row per record.
getRowsFromData(arrayData) ==
  [o \in Oid |->
     IF o <= Len(arrayData)
       THEN [id |-> getRowIdFromIndex(o - 1, Len(arrayData)), editing |-> FALSE,
             currentData |-> arrayData[o], originalData |-> Undefined]
       ELSE FreeRow]

\* The rows as a subscriber of rowsSubject reads them: the fields of the row in
\* each slot of the array.
AsSeen(source, e) == [i \in DOMAIN source |-> e[source[i]]]

\* The record of a call: its name, the array reference it was given
\* (updateDatasource) and what it returned.
Called(name, ref, value) == [op |-> name, arg |-> ref, ret |-> value]
Returned(name, value) == Called(name, Undefined, value)

(* ------------------------------ construction --------------------------- *)

\* Object.keys(this.createNewObject()): the fields of a record.
RowKeys == {"name", "age"}

\* What validatorService.getRowValidator() returns: no form group, one whose
\* controls are the fields of the record, one with a control that is no field.
NoFormGroup == [null |-> TRUE, controls |-> {}]
MatchingFormGroup == [null |-> FALSE, controls |-> {"name", "age"}]
MismatchingFormGroup == [null |-> FALSE, controls |-> {"name", "nick"}]
FormGroups == {NoFormGroup, MatchingFormGroup, MismatchingFormGroup}

\* logError: what it adds to the console.
logError(message) == IF ~suppressErrors THEN << message >> ELSE << >>

\* checkValidatorFields: what it adds to the console.
checkValidatorFields(validator) ==
  IF ~suppressErrors
    THEN << >>
    ELSE IF ~validator.null
           THEN LET invalidKeys == {key \in validator.controls : key \notin RowKeys}
                IN IF Cardinality(invalidKeys) > 0
                     THEN logError("Validator form control keys must match row object keys")
                     ELSE << >>
           ELSE << >>

\* new TableDataSource(data, dataType, validatorService, config), for the arrays
\* `refs` of the caller, the configs and the validators given. The constructor
\* leaves this.currentData unset.
Construct(refs, prepends, keeps, suppresses, validators) ==
  /\ prependNewElements \in prepends
  /\ keepOriginalDataAfterConfirm \in keeps
  /\ suppressErrors \in suppresses
  /\ formGroup \in validators
  /\ console = checkValidatorFields(formGroup)
  /\ \E data \in refs :
       /\ rows = [i \in 1 .. Len(Collections[data]) |-> i]
       /\ el = getRowsFromData(Collections[data])
       /\ call = Called("constructor", data, "void")
  /\ currentData = Undefined
  /\ emitted = NoEmission
  /\ pubs = << >>
  /\ seen = << >>
  /\ connectedViewers = << >>
  /\ delivered = << >>

\* Construction with errors logged and a validator that matches the record.
InitWith(refs, prepends, keeps) ==
  Construct(refs, prepends, keeps, {FALSE}, {MatchingFormGroup})

Init == Construct(CallerRefs, BOOLEAN, BOOLEAN, BOOLEAN, FormGroups)

(* ------------------------------ operations ----------------------------- *)

\* `if (insertAt)`: undefined and 0 are falsy.
Truthy(n) == n # NoInsertAt /\ n # 0

\* The array createNew publishes, with the new row in it.
createNewRows(insertAt, source, newElement) ==
  IF Truthy(insertAt)
    THEN spliceInsert(source, insertAt, newElement)
    ELSE IF prependNewElements
           THEN << newElement >> \o source
           ELSE Append(source, newElement)

createNew(insertAt) ==
  /\ call' = Returned("createNew", "void")
  /\ IF ~existsNewElement(rows, el)
       THEN /\ Len(rows) < MaxRows
            /\ LET newElement == NewOid(rows)
                    source == createNewRows(insertAt, rows, newElement)
                    e1 == [el EXCEPT ![newElement] =
                             [id |-> NewRowId, editing |-> TRUE,
                              currentData |-> EmptyRecord,
                              originalData |-> Undefined]]
               IN /\ rows' = Named(source)
                  /\ el' = Collect(source, e1)
                  /\ delivered' = deliver(source)
                  /\ pubs' = << "rows" >>
                  /\ seen' = << AsSeen(source, e1) >>
       ELSE /\ pubs' = << >>
            /\ seen' = << >>
            /\ delivered' = << >>
            /\ UNCHANGED << rows, el >>
  /\ emitted' = NoEmission
  /\ UNCHANGED << config, currentData, connectedViewers >>

\* A version that emits the records without holding the array it emits.
updateDatasourceFromRowsUnheld(source, e) ==
  /\ currentData' = currentData
  /\ emitted' = [ref |-> EmittedRef, items |-> getDataFromRows(source, e)]

\* updateDatasourceFromRows: the records of the rows become the held array and
\* are published on datasourceSubject.
updateDatasourceFromRows(source, e) ==
  /\ currentData' = EmittedRef
  /\ emitted' = [ref |-> EmittedRef, items |-> getDataFromRows(source, e)]

\* A version that counts the row under creation too.
confirmCreateIdCount(source) == Len(source)

\* `row.id = source.length - 1`.
confirmCreateId(source) == Len(source) - 1

confirmCreate(row) ==
  LET checked == isValid(el[row])
  IN IF ~checked.ret
       THEN /\ el' = [el EXCEPT ![row] = checked.row]
            /\ pubs' = << >>
            /\ seen' = << >>
            /\ delivered' = << >>
            /\ call' = Returned("confirmCreate", "false")
            /\ emitted' = NoEmission
            /\ UNCHANGED << config, rows, currentData, connectedViewers >>
       ELSE LET source == rows
                e1 == [el EXCEPT ![row] = [checked.row EXCEPT !.id = confirmCreateId(source)]]
                e2 == IF keepOriginalDataAfterConfirm
                        THEN [e1 EXCEPT ![row].originalData = e1[row].currentData]
                        ELSE e1
                e3 == [e2 EXCEPT ![row].editing = FALSE]
            IN /\ delivered' = deliver(source)
               /\ el' = e3
               /\ updateDatasourceFromRows(source, e3)
               /\ pubs' = << "rows", "data" >>
               /\ seen' = << AsSeen(source, e1), AsSeen(source, e3) >>
               /\ call' = Returned("confirmCreate", "true")
               /\ UNCHANGED << config, rows, connectedViewers >>

confirmEdit(row) ==
  LET checked == isValid(el[row])
  IN IF ~checked.ret
       THEN /\ el' = [el EXCEPT ![row] = checked.row]
            /\ pubs' = << >>
            /\ seen' = << >>
            /\ delivered' = << >>
            /\ call' = Returned("confirmEdit", "false")
            /\ emitted' = NoEmission
            /\ UNCHANGED << config, rows, currentData, connectedViewers >>
       ELSE LET e0 == [el EXCEPT ![row] = checked.row]
                index == getIndexFromRowId(e0[row].id, rows, e0)
                source == IF index >= 0 THEN [rows EXCEPT ![index + 1] = row] ELSE rows
                e1 == IF ~keepOriginalDataAfterConfirm
                        THEN [e0 EXCEPT ![row].originalData = Undefined]
                        ELSE e0
                e2 == [e1 EXCEPT ![row].editing = FALSE]
            IN /\ rows' = Named(source)
               /\ delivered' = deliver(source)
               /\ el' = Collect(source, e2)
               /\ updateDatasourceFromRows(source, e2)
               /\ pubs' = << "rows", "data" >>
               /\ seen' = << AsSeen(source, e0), AsSeen(source, e2) >>
               /\ call' = Returned("confirmEdit", "true")
               /\ UNCHANGED << config, connectedViewers >>

delete(id) ==
  LET index == getIndexFromRowId(id, rows, el)
      source == spliceDelete(rows, index)
      e1 == updateRowIds(index, source, el)
  IN /\ rows' = Named(source)
     /\ el' = Collect(source, e1)
     /\ delivered' = deliver(source)
     /\ IF id # NewRowId
          THEN /\ updateDatasourceFromRows(source, e1)
               /\ pubs' = << "rows", "data" >>
               /\ seen' = << AsSeen(source, e1), AsSeen(source, e1) >>
          ELSE /\ pubs' = << "rows" >>
               /\ seen' = << AsSeen(source, e1) >>
               /\ emitted' = NoEmission
               /\ UNCHANGED currentData
     /\ call' = Returned("delete", "void")
     /\ UNCHANGED << config, connectedViewers >>

\* A version that emits the records before it publishes the array.
moveEmitsFirst(id, direction) ==
  /\ call' = Returned("move", "void")
  /\ direction # 0
  /\ LET index == getIndexFromRowId(id, rows, el)
         source == moveItemInArray(rows, index, index + direction)
         e1 == updateRowIds(0, source, el)
     IN /\ rows' = Named(source)
        /\ el' = Collect(source, e1)
        /\ delivered' = deliver(source)
        /\ updateDatasourceFromRows(source, e1)
        /\ pubs' = << "data", "rows" >>
        /\ seen' = << AsSeen(source, e1), AsSeen(source, e1) >>
  /\ UNCHANGED << config, connectedViewers >>

\* A version that does not test the direction.
moveAlways(id, direction) ==
  /\ call' = Returned("move", "void")
  /\ LET index == getIndexFromRowId(id, rows, el)
         source == moveItemInArray(rows, index, index + direction)
         e1 == updateRowIds(0, source, el)
     IN /\ rows' = Named(source)
        /\ el' = Collect(source, e1)
        /\ delivered' = deliver(source)
        /\ IF id # NewRowId
             THEN /\ updateDatasourceFromRows(source, e1)
                  /\ pubs' = << "rows", "data" >>
                  /\ seen' = << AsSeen(source, e1), AsSeen(source, e1) >>
             ELSE /\ pubs' = << "rows" >>
                  /\ seen' = << AsSeen(source, e1) >>
                  /\ emitted' = NoEmission
                  /\ UNCHANGED currentData
  /\ UNCHANGED << config, connectedViewers >>

move(id, direction) ==
  /\ call' = Returned("move", "void")
  /\ IF direction = 0
       THEN /\ pubs' = << >>
            /\ seen' = << >>
            /\ delivered' = << >>
            /\ emitted' = NoEmission
            /\ UNCHANGED << rows, el, currentData >>
       ELSE LET index == getIndexFromRowId(id, rows, el)
                source == moveItemInArray(rows, index, index + direction)
                e1 == updateRowIds(0, source, el)
            IN /\ rows' = Named(source)
               /\ el' = Collect(source, e1)
               /\ delivered' = deliver(source)
               /\ IF id # NewRowId
                    THEN /\ updateDatasourceFromRows(source, e1)
                         /\ pubs' = << "rows", "data" >>
                         /\ seen' = << AsSeen(source, e1), AsSeen(source, e1) >>
                    ELSE /\ pubs' = << "rows" >>
                         /\ seen' = << AsSeen(source, e1) >>
                         /\ emitted' = NoEmission
                         /\ UNCHANGED currentData
  /\ UNCHANGED << config, connectedViewers >>

\* A version that does not keep the reference it was given.
updateDatasourceForgets(data, emitEvent) ==
  /\ call' = Called("updateDatasource", data, "void")
  /\ LET arrayData == Items(data)
         source == [i \in 1 .. Len(arrayData) |-> i]
     IN /\ rows' = source
        /\ el' = getRowsFromData(arrayData)
        /\ delivered' = deliver(source)
        /\ IF emitEvent
             THEN /\ emitted' = [ref |-> data, items |-> arrayData]
                  /\ pubs' = << "rows", "data" >>
                  /\ seen' = << AsSeen(source, getRowsFromData(arrayData)), AsSeen(source, getRowsFromData(arrayData)) >>
             ELSE /\ pubs' = << "rows" >>
                  /\ seen' = << AsSeen(source, getRowsFromData(arrayData)) >>
                  /\ emitted' = NoEmission
  /\ UNCHANGED << config, currentData, connectedViewers >>

updateDatasource(data, emitEvent) ==
  /\ call' = Called("updateDatasource", data, "void")
  /\ IF currentData # data
       THEN LET arrayData == Items(data)
                source == [i \in 1 .. Len(arrayData) |-> i]
            IN /\ currentData' = data
               /\ rows' = source
               /\ el' = getRowsFromData(arrayData)
               /\ delivered' = deliver(source)
               /\ IF emitEvent
                    THEN /\ emitted' = [ref |-> data, items |-> arrayData]
                         /\ pubs' = << "rows", "data" >>
                         /\ seen' = << AsSeen(source, getRowsFromData(arrayData)), AsSeen(source, getRowsFromData(arrayData)) >>
                    ELSE /\ pubs' = << "rows" >>
                         /\ seen' = << AsSeen(source, getRowsFromData(arrayData)) >>
                         /\ emitted' = NoEmission
       ELSE /\ pubs' = << >>
            /\ seen' = << >>
            /\ delivered' = << >>
            /\ emitted' = NoEmission
            /\ UNCHANGED << rows, el, currentData >>
  /\ UNCHANGED << config, connectedViewers >>

(* --------------------------- the user's edits -------------------------- *)

\* TableElement.startEdit: the row keeps a snapshot of its record and its
\* validator is enabled.
startEdit(row) ==
  /\ el[row].id # NewRowId
  /\ ~el[row].editing
  /\ el' = [el EXCEPT ![row].editing = TRUE,
                      ![row].originalData =
                         IF keepOriginalDataAfterConfirm /\ @ # Undefined
                           THEN @ ELSE el[row].currentData]
  /\ pubs' = << >>
  /\ seen' = << >>
  /\ delivered' = << >>
  /\ call' = Returned("startEdit", "void")
  /\ emitted' = NoEmission
  /\ UNCHANGED << config, rows, currentData, connectedViewers >>

\* The user types a record into the form of a row under edition.
setValue(row, data) ==
  /\ el[row].editing
  /\ el' = [el EXCEPT ![row].currentData = data]
  /\ pubs' = << >>
  /\ seen' = << >>
  /\ delivered' = << >>
  /\ call' = Returned("setValue", "void")
  /\ emitted' = NoEmission
  /\ UNCHANGED << config, rows, currentData, connectedViewers >>

(* ------------------------------- viewers ------------------------------- *)

\* The collection viewers (the tables that show the rows).
Viewers == {"v1", "v2"}

\* connect(collectionViewer) and the subscription of the table to the stream it
\* returns: rowsSubject replays its current value through the map().
connect(collectionViewer) ==
  /\ Len(connectedViewers) < MaxConn
  /\ LET range == [start |-> 0, end |-> -1]
     IN /\ connectedViewers' = Append(connectedViewers,
             [viewer |-> collectionViewer, range |-> range, subscription |-> TRUE])
        /\ delivered' = [c \in {Len(connectedViewers) + 1} |-> viewSlice(range, rows)]
  /\ pubs' = << >>
  /\ seen' = << >>
  /\ call' = Returned("connect", "void")
  /\ emitted' = NoEmission
  /\ UNCHANGED << config, rows, el, currentData >>

\* A version in which the connections share one range.
viewChangeShared(collectionViewer, r) ==
  /\ \E c \in DOMAIN connectedViewers : connectedViewers[c].viewer = collectionViewer
  /\ connectedViewers' =
       [c \in DOMAIN connectedViewers |->
          IF connectedViewers[c].subscription
            THEN [connectedViewers[c] EXCEPT !.range = r]
            ELSE connectedViewers[c]]
  /\ pubs' = << >>
  /\ seen' = << >>
  /\ delivered' = << >>
  /\ call' = Returned("viewChange", "void")
  /\ emitted' = NoEmission
  /\ UNCHANGED << config, rows, el, currentData >>

\* collectionViewer.viewChange emits r: every live subscription made by connect
\* for that viewer copies it into its range.
viewChange(collectionViewer, r) ==
  /\ \E c \in DOMAIN connectedViewers : connectedViewers[c].viewer = collectionViewer
  /\ connectedViewers' =
       [c \in DOMAIN connectedViewers |->
          IF connectedViewers[c].viewer = collectionViewer /\ connectedViewers[c].subscription
            THEN [connectedViewers[c] EXCEPT !.range = r]
            ELSE connectedViewers[c]]
  /\ pubs' = << >>
  /\ seen' = << >>
  /\ delivered' = << >>
  /\ call' = Returned("viewChange", "void")
  /\ emitted' = NoEmission
  /\ UNCHANGED << config, rows, el, currentData >>

disconnect(collectionViewer) ==
  /\ LET refs == {c \in DOMAIN connectedViewers :
                    connectedViewers[c].viewer = collectionViewer}
     IN IF refs # {}
          THEN LET ref == CHOOSE c \in refs : \A d \in refs : c <= d
               IN connectedViewers' = [connectedViewers EXCEPT ![ref].subscription = FALSE]
          ELSE UNCHANGED connectedViewers
  /\ pubs' = << >>
  /\ seen' = << >>
  /\ delivered' = << >>
  /\ call' = Returned("disconnect", "void")
  /\ emitted' = NoEmission
  /\ UNCHANGED << config, rows, el, currentData >>

(* ---------------------------- specification ---------------------------- *)

\* Inputs of the calls. The rows handed to confirmCreate and confirmEdit are rows
\* of the current array: TableElement.confirmEditCreate calls confirmCreate for
\* the row with id -1 and confirmEdit for the others.
InsertAts == {NoInsertAt} \cup (0 .. Len(rows))
Ids == NewRowId .. Len(rows)
Directions == (0 - MaxMove) .. MaxMove
Typed == {EmptyRecord} \cup Records
\* The ranges a viewer reports: everything, a window at the start, a window
\* further on, an open end.
Ranges == {[start |-> 0, end |-> -1], [start |-> 0, end |-> 1],
           [start |-> 1, end |-> 2], [start |-> 1, end |-> 0]}
NewRows == {row \in Range(rows) : el[row].id = NewRowId}
OldRows == {row \in Range(rows) : el[row].id # NewRowId}
\* The array fed back to updateDatasource: the one datasourceSubject emitted last.
Feedback == {emitted.ref} \ {Undefined}

\* The whole system: every call with every input.
Next ==
  \/ \E insertAt \in InsertAts : createNew(insertAt)
  \/ \E row \in NewRows : confirmCreate(row)
  \/ \E row \in OldRows : confirmEdit(row)
  \/ \E id \in Ids : delete(id)
  \/ \E id \in Ids, direction \in Directions : move(id, direction)
  \/ \E data \in CallerRefs \cup Feedback, emitEvent \in BOOLEAN :
       updateDatasource(data, emitEvent)
  \/ \E row \in Range(rows) : startEdit(row)
  \/ \E row \in Range(rows), data \in Typed : setValue(row, data)
  \/ \E viewer \in Viewers : connect(viewer)
  \/ \E viewer \in Viewers, r \in Ranges : viewChange(viewer, r)
  \/ \E viewer \in Viewers : disconnect(viewer)

Spec == Init /\ [][Next]_vars

\* The specifications below make part of the calls, so that each can be
\* explored to its end.

\* Structure and ids: every structural call with every input, on arrays of equal
\* records and with keepOriginalDataAfterConfirm left unset (neither the records
\* nor that option play a part in where a row goes or in the id it gets).
IdsRefs == {"aa", "a"}

NextIds ==
  \/ \E insertAt \in InsertAts : createNew(insertAt)
  \/ \E row \in NewRows : confirmCreate(row)
  \/ \E row \in OldRows : confirmEdit(row)
  \/ \E id \in Ids : delete(id)
  \/ \E id \in Ids, direction \in Directions : move(id, direction)
  \/ \E data \in IdsRefs \cup Feedback, emitEvent \in BOOLEAN :
       updateDatasource(data, emitEvent)
  \/ \E row \in NewRows : setValue(row, "A")

InitIds == InitWith(IdsRefs, BOOLEAN, {FALSE})

SpecIds == InitIds /\ [][NextIds]_vars

\* Edition: rows are created at the default place, edited, confirmed, deleted
\* and rebuilt, under every config, on arrays holding a filled record and the
\* empty one; the user clears the form or fills it.
EditRefs == {"ae", "a"}

NextEdit ==
  \/ createNew(NoInsertAt)
  \/ \E row \in NewRows : confirmCreate(row)
  \/ \E row \in OldRows : confirmEdit(row)
  \/ \E id \in Ids : delete(id)
  \/ \E data \in EditRefs \cup Feedback, emitEvent \in BOOLEAN :
       updateDatasource(data, emitEvent)
  \/ \E row \in OldRows : startEdit(row)
  \/ \E row \in Range(rows), data \in {EmptyRecord, "A"} : setValue(row, data)

InitEdit == InitWith(EditRefs, BOOLEAN, BOOLEAN)

SpecEdit == InitEdit /\ [][NextEdit]_vars

\* Windowed delivery: viewers connect, report ranges and disconnect while a row
\* is created, the last row is deleted and the rows are rebuilt, in append mode.
ViewRefs == {"aa"}

NextView ==
  \/ \E viewer \in Viewers : connect(viewer)
  \/ \E viewer \in Viewers, r \in Ranges : viewChange(viewer, r)
  \/ \E viewer \in Viewers : disconnect(viewer)
  \/ createNew(NoInsertAt)
  \/ delete(NewRowId)
  \/ \E data \in ViewRefs : updateDatasource(data, TRUE)

InitView == InitWith(ViewRefs, {FALSE}, {FALSE})

SpecView == InitView /\ [][NextView]_vars

\* Record output: rows are created at the default place, confirmed, deleted and
\* moved, on an array of two different records, under both numbering modes.
OutRefs == {"ab"}

NextOut ==
  \/ createNew(NoInsertAt)
  \/ \E row \in NewRows : confirmCreate(row)
  \/ \E row \in OldRows : confirmEdit(row)
  \/ \E id \in Ids : delete(id)
  \/ \E id \in Ids, direction \in Directions : move(id, direction)
  \/ \E row \in NewRows : setValue(row, "A")

InitOut == InitWith(OutRefs, BOOLEAN, {FALSE})

SpecOut == InitOut /\ [][NextOut]_vars

\* Construction: every value of suppressErrors with every validator, followed
\* by the creation, confirmation and deletion of rows.
ConstructRefs == {"a"}

NextConstruct ==
  \/ createNew(NoInsertAt)
  \/ \E row \in NewRows : confirmCreate(row)
  \/ \E id \in Ids : delete(id)
  \/ \E row \in NewRows : setValue(row, "A")

InitConstruct == Construct(ConstructRefs, {FALSE}, {FALSE}, BOOLEAN, FormGroups)

SpecConstruct == InitConstruct /\ [][NextConstruct]_vars

(* ------------------------------- claims -------------------------------- *)

\* The slots of the array holding a committed row, and a pending one.
CommittedSlots == {i \in DOMAIN rows : el[rows[i]].id # NewRowId}
PendingSlots == {i \in DOMAIN rows : el[rows[i]].id = NewRowId}
\* The ids of the committed rows, in the order of the array.
IdsOf(source, e) ==
  LET committed == SelectSeq(source, LAMBDA o : e[o].id # NewRowId)
  IN [j \in DOMAIN committed |-> e[committed[j]].id]

\* C1: after every call the ids of the committed rows are pairwise distinct and
\* are exactly 0..k-1 for the k committed rows, in the order of the numbering
\* mode: counting up from the start of the array in append mode, down in
\* prepend mode.
C1_CommittedIdsContiguous ==
  LET ids == IdsOf(rows, el)
      k == Len(ids)
  IN /\ \A i, j \in 1 .. k : i # j => ids[i] # ids[j]
     /\ {ids[j] : j \in 1 .. k} = 0 .. k - 1
     /\ \A j \in 1 .. k : ids[j] = IF prependNewElements THEN k - j ELSE j - 1

\* C2: in every state at most one row of the array has id -1, and createNew
\* called while such a row exists adds no row and publishes nothing.
C2_AtMostOnePending ==
  /\ [](Cardinality(PendingSlots) <= 1)
  /\ [][\A insertAt \in InsertAts :
          (PendingSlots # {} /\ createNew(insertAt))
            => (rows' = rows /\ el' = el /\ pubs' = << >> /\ emitted' = NoEmission)]_vars

\* createNew was called while a row was pending, in an array that had room.
C2_Witness ==
  /\ call.op = "createNew" /\ pubs = << >>
  /\ Cardinality(PendingSlots) = 1 /\ Len(rows) < MaxRows

\* C3: when the row's validator rejects its record, confirmCreate and
\* confirmEdit return false, leave every row, the array and the held array as
\* they were and publish nothing; and a confirm takes a row out of edition only
\* when its validator accepts its record.
C3_InvalidConfirmChangesNothing ==
  [][\A i \in DOMAIN rows :
       /\ (/\ el[rows[i]].currentData = EmptyRecord
           /\ confirmCreate(rows[i]) \/ confirmEdit(rows[i]))
            => /\ call'.ret = "false"
               /\ rows' = rows /\ el' = el /\ currentData' = currentData
               /\ pubs' = << >> /\ emitted' = NoEmission /\ delivered' = << >>
       /\ (/\ el[rows[i]].editing
           /\ confirmCreate(rows[i]) \/ confirmEdit(rows[i])
           /\ ~el'[rows'[i]].editing)
            => el[rows[i]].currentData # EmptyRecord]_vars

\* confirmEdit has refused a committed row that is not under edition and holds
\* a record its validator rejects.
C3_Witness ==
  /\ call.op = "confirmEdit" /\ call.ret = "false"
  /\ \E i \in CommittedSlots :
       el[rows[i]].currentData = EmptyRecord /\ ~el[rows[i]].editing

\* The range a connection slices with is the one its viewer reported last as
\* long as its subscription is live; the slice the claims expect for it.
ExpectedSlice(range, data) ==
  LET first == range.start + 1
      last == IF range.end > range.start
                THEN (IF range.end < Len(data) THEN range.end ELSE Len(data))
                ELSE Len(data)
  IN [k \in 1 .. (IF last >= first THEN last - first + 1 ELSE 0) |-> data[first + k - 1]]

\* C4: at every publication of the array, a viewer whose latest range is
\* [start, end) is delivered the rows start..end-1 when end > start (cut at the
\* length of the array), whatever start >= 0 is, and the rows from start to the
\* end of the array when end <= start.
C4_SliceIsReportedRange ==
  "rows" \in Range(pubs) =>
    \A c \in DOMAIN connectedViewers :
      connectedViewers[c].subscription =>
        delivered[c] = ExpectedSlice(connectedViewers[c].range, rows)

\* C5: updateDatasource(d) called again right after updateDatasource(d) changes
\* no row and publishes nothing on either channel, whatever emitEvent is; and
\* no call of updateDatasource publishes more than once on a channel.
C5_SameReferenceTwice ==
  [][\A data \in CallerRefs \cup Feedback, emitEvent \in BOOLEAN :
       updateDatasource(data, emitEvent) =>
         /\ pubs' \in {<< >>, << "rows" >>, << "rows", "data" >>}
         /\ (call.op = "updateDatasource" /\ call.arg = data)
              => /\ rows' = rows /\ el' = el /\ delivered' = << >>
                 /\ pubs' = << >> /\ emitted' = NoEmission]_vars

\* updateDatasource was called with the array it was given before, and did
\* nothing.
C5_Witness ==
  /\ call.op = "updateDatasource" /\ call.arg \in CallerRefs
  /\ currentData = call.arg /\ pubs = << >>

\* The records of the committed rows, as the record output gives them.
CommittedRecords(source, e) ==
  LET committed == SelectSeq(source, LAMBDA o : e[o].id # NewRowId)
  IN [j \in DOMAIN committed |->
        IF ~keepOriginalDataAfterConfirm /\ e[committed[j]].originalData # Undefined
          THEN e[committed[j]].originalData
          ELSE e[committed[j]].currentData]

\* C6: in append mode, createNew() without insertAt on committed records R with
\* no pending row puts the new row last and leaves R as it is, and the
\* successful confirmCreate of that row holding d emits R followed by d and
\* gives the row the id |R|.
C6_CreateRoundTrip ==
  [][~prependNewElements =>
       /\ (PendingSlots = {} /\ createNew(NoInsertAt))
            => /\ PendingSlots' = {Len(rows) + 1}
               /\ CommittedRecords(rows', el') = CommittedRecords(rows, el)
       /\ \A i \in DOMAIN rows :
            (/\ i = Len(rows) /\ PendingSlots = {i}
             /\ confirmCreate(rows[i]) /\ call'.ret = "true")
              => /\ emitted'.items =
                      Append(CommittedRecords(rows, el), el[rows[i]].currentData)
                 /\ el'[rows'[i]].id = Len(CommittedRecords(rows, el))]_vars

\* The row created after the records A and the empty one was confirmed
\* holding A.
C6_Witness ==
  /\ ~prependNewElements
  /\ call.op = "confirmCreate" /\ call.ret = "true"
  /\ emitted.items = << "A", EmptyRecord, "A" >>
  /\ el[rows[3]].id = 2

\* C7: delete(-1) while a row is pending removes that row alone, leaves the
\* committed rows and their ids as they were, publishes the array once and
\* nothing on the record output.
C7_DeletePendingFrame ==
  [][(PendingSlots # {} /\ delete(NewRowId))
       => /\ Len(rows') = Len(rows) - 1
          /\ PendingSlots' = {}
          /\ IdsOf(rows', el') = IdsOf(rows, el)
          /\ CommittedRecords(rows', el') = CommittedRecords(rows, el)
          /\ pubs' = << "rows" >>
          /\ emitted' = NoEmission]_vars

Absent(id) == \A i \in DOMAIN rows : el[rows[i]].id # id

\* C8: delete(id) and move(id, direction) for an id no row holds remove and
\* relocate no row and change no id.
C8_AbsentIdChangesNothing ==
  [][\A id \in Ids :
       Absent(id) =>
         /\ delete(id) => (rows' = rows /\ el' = el)
         /\ \A direction \in Directions :
              move(id, direction) => (rows' = rows /\ el' = el)]_vars

\* C9: the publications of a call are made during the call, and a call that
\* publishes on both channels publishes the array first: a call publishes
\* nothing, the array, or the array and then the records.
C9_RowsBeforeRecords ==
  /\ pubs \in {<< >>, << "rows" >>, << "rows", "data" >>}
  /\ (emitted # NoEmission) = ("data" \in Range(pubs))

\* A row was moved and both channels published.
C9_Witness == call.op = "move" /\ Len(pubs) = 2

\* C10: createNew(insertAt) with no pending row puts the new row at index
\* insertAt when insertAt is given, 0 included, in both modes; without
\* insertAt it puts it first in prepend mode and last in append mode.
C10_InsertAtWins ==
  [][\A insertAt \in InsertAts :
       (PendingSlots = {} /\ createNew(insertAt))
         => PendingSlots' = {IF insertAt # NoInsertAt THEN insertAt + 1
                             ELSE IF prependNewElements THEN 1
                             ELSE Len(rows) + 1}]_vars

\* C11: every collection confirmCreate, confirmEdit, delete or move emits on
\* datasourceSubject holds one record per committed row, in the order of the
\* array, and none for a row with id -1; createNew emits nothing there.
C11_RecordsOfCommittedRows ==
  /\ (call.op \in {"confirmCreate", "confirmEdit", "delete", "move"} /\ emitted # NoEmission)
       => /\ Len(emitted.items) = Cardinality(CommittedSlots)
          /\ emitted.items = CommittedRecords(rows, el)
  /\ call.op = "createNew" => (emitted = NoEmission /\ "data" \notin Range(pubs))

\* The first of two committed rows was deleted while a row was pending, and
\* the record of the other was emitted alone.
C11_Witness ==
  /\ call.op = "delete" /\ emitted.items = << "B" >>
  /\ PendingSlots # {} /\ Cardinality(CommittedSlots) = 1

\* C12: disconnect(viewer) changes no row, id, held array or range of another
\* viewer and publishes nothing; after it no subscription of that viewer to
\* range reports is live, however many times the viewer was connected; and for
\* a viewer with no live subscription it changes nothing at all.
C12_DisconnectReleasesViewer ==
  [][\A viewer \in Viewers :
       disconnect(viewer) =>
         /\ rows' = rows /\ el' = el /\ currentData' = currentData
         /\ pubs' = << >> /\ emitted' = NoEmission /\ delivered' = << >>
         /\ \A c \in DOMAIN connectedViewers :
              /\ connectedViewers'[c].range = connectedViewers[c].range
              /\ connectedViewers[c].viewer # viewer
                   => connectedViewers'[c] = connectedViewers[c]
              /\ connectedViewers[c].viewer = viewer
                   => ~connectedViewers'[c].subscription
         /\ (\A c \in DOMAIN connectedViewers :
               connectedViewers[c].viewer = viewer => ~connectedViewers[c].subscription)
              => connectedViewers' = connectedViewers]_vars

\* C13: every publication of the array is sliced for each connection with the
\* range that connection holds, a range report of a viewer becomes the range
\* of that viewer's live connections and of no other connection and delivers
\* nothing, and nothing but a report of its own viewer changes the range of a
\* connection.
C13_OwnLatestRange ==
  /\ []("rows" \in Range(pubs) =>
          \A c \in DOMAIN connectedViewers :
            delivered[c] = viewSlice(connectedViewers[c].range, rows))
  /\ [][/\ \A viewer \in Viewers, r \in Ranges :
             viewChange(viewer, r) =>
               /\ delivered' = << >>
               /\ \A c \in DOMAIN connectedViewers :
                    /\ (connectedViewers[c].viewer = viewer /\ connectedViewers[c].subscription)
                         => connectedViewers'[c].range = r
                    /\ connectedViewers[c].viewer # viewer
                         => connectedViewers'[c].range = connectedViewers[c].range
        /\ \A c \in DOMAIN connectedViewers :
             connectedViewers'[c].range # connectedViewers[c].range
               => \E r \in Ranges : viewChange(connectedViewers[c].viewer, r)]_vars

\* Two viewers are connected, each has reported a range of its own after
\* connect, and the array just published was sliced differently for them.
C13_Witness ==
  /\ Len(connectedViewers) = 2 /\ "rows" \in Range(pubs)
  /\ connectedViewers[1].viewer # connectedViewers[2].viewer
  /\ connectedViewers[1].range = [start |-> 1, end |-> 2]
  /\ connectedViewers[2].range = [start |-> 1, end |-> 0]
  /\ delivered[1] # delivered[2]

\* C14: when the validator has a control that is no field of the record,
\* construction logs one error if suppressErrors is false and none if it is
\* true, and succeeds either way.
C14_MismatchLogged ==
  (~formGroup.null /\ formGroup.controls \ RowKeys # {})
    => /\ call.ret # "throw"
       /\ IF suppressErrors THEN console = << >> ELSE Len(console) = 1

\* C15: move(id, 0) changes no row, no id and no order and publishes nothing
\* on either channel, for every id: of a committed row, of the pending row, of
\* no row.
C15_MoveZeroIsNoOp ==
  [][\A id \in Ids :
       move(id, 0) =>
         /\ rows' = rows /\ el' = el /\ currentData' = currentData
         /\ pubs' = << >> /\ emitted' = NoEmission /\ delivered' = << >>]_vars

\* move(id, 0) was called while a row was pending.
C15_Witness ==
  /\ call.op = "move" /\ pubs = << >>
  /\ PendingSlots # {} /\ CommittedSlots # {}

\* The ids of all rows are those of their places: i in append mode, n-1-i in
\* prepend mode, for the row at index i of n.
NumberedByIndex(source, e) ==
  \A i \in DOMAIN source :
    e[source[i]].id = IF prependNewElements THEN Len(source) - i ELSE i - 1

\* C16: move(id, direction) of a committed row, with direction # 0, a target
\* inside the array and no pending row, leaves every row with the id of its
\* place.
C16_MoveRenumbersAll ==
  [][\A id \in Ids, direction \in Directions :
       LET index == getIndexFromRowId(id, rows, el)
       IN (/\ PendingSlots = {} /\ id # NewRowId /\ index >= 0
           /\ direction # 0
           /\ index + direction >= 0 /\ index + direction < Len(rows)
           /\ move(id, direction))
            => NumberedByIndex(rows', el')]_vars

\* C17: delete(id) of a committed row, wherever it is, with no pending row,
\* leaves every remaining row with the id of its place.
C17_DeleteRenumbersRest ==
  [][\A id \in Ids :
       (/\ PendingSlots = {} /\ id # NewRowId /\ ~Absent(id)
        /\ delete(id))
         => NumberedByIndex(rows', el')]_vars

\* C18: in a successful confirmCreate or confirmEdit the row is changed before
\* anything is published: at the publication of the array and at the
\* publication of the records the confirmed row is out of edition and, for
\* confirmEdit without keepOriginalDataAfterConfirm, has no originalData.
C18_RowSettledBeforePublication ==
  [][\A i \in DOMAIN rows :
       (/\ confirmCreate(rows[i]) \/ confirmEdit(rows[i])
        /\ call'.ret = "true")
         => \A k \in DOMAIN seen' :
              /\ ~seen'[k][i].editing
              /\ (call'.op = "confirmEdit" /\ ~keepOriginalDataAfterConfirm)
                   => seen'[k][i].originalData = Undefined]_vars

\* C19: updateDatasource(d) called first after construction, with the array d
\* the data source was constructed from, rebuilds no row and publishes nothing
\* on either channel.
C19_ConstructorArrayIsHeld ==
  [][\A data \in CallerRefs, emitEvent \in BOOLEAN :
       (/\ call.op = "constructor" /\ call.arg = data
        /\ updateDatasource(data, emitEvent))
         => /\ rows' = rows /\ el' = el
            /\ pubs' = << >> /\ emitted' = NoEmission /\ delivered' = << >>]_vars

\* C20: updateDatasource(E) called right after a confirmCreate, confirmEdit,
\* delete or move that emitted the array E leaves the array of rows, every id
\* and every editing flag as they were and publishes nothing on either
\* channel, whatever emitEvent is.
C20_FeedbackChangesNothing ==
  [][\A emitEvent \in BOOLEAN :
       (/\ call.op \in {"confirmCreate", "confirmEdit", "delete", "move"}
        /\ emitted # NoEmission
        /\ updateDatasource(emitted.ref, emitEvent))
         => /\ rows' = rows /\ el' = el /\ currentData' = currentData
            /\ pubs' = << >> /\ emitted' = NoEmission /\ delivered' = << >>]_vars

\* The emitted array was fed back while a row was pending, and the pending row
\* is still there.
C20_Witness ==
  /\ call.op = "updateDatasource" /\ call.arg = EmittedRef
  /\ pubs = << >> /\ PendingSlots # {} /\ CommittedSlots # {}

====
